---- MODULE Spec2Model ----
(***************************************************************************)
(* Model of src/quiz.py: the SQLite-backed quiz store (class QuizDatabase), *)
(* the quiz session (class Quiz) and the run command that joins them.       *)
(*                                                                          *)
(* One process runs at a time.  A storage operation is one action: it opens *)
(* a connection, executes its statements and returns or raises.  A          *)
(* connection that an operation leaves open stays open until the Python     *)
(* runtime finalises it (action finalize); while such a connection holds an *)
(* open write transaction, the SQLite file is locked for other writers.     *)
(***************************************************************************)
EXTENDS Integers, Sequences, FiniteSets, TLC

(* ------------------------------ bounds --------------------------------- *)
MaxQuizId == 2          \* quizzes rows ever inserted (AUTOINCREMENT counter)
MaxQuestionId == 2      \* questions rows ever inserted
MaxOpenConns == 2       \* connections left open before one is finalised
MaxQuestions == 3       \* length of a question list handed to Quiz(...)

Names == {"n1", "n2"}

\* arguments of create_quiz: (name, title, description)
QuizArgs == {<<"n1", "t1", "">>, <<"n1", "t2", "d1">>, <<"n2", "t2", "d1">>}

\* arguments of add_question: (question, choices, correct, explanation);
\* the last two are rejected (too few choices, label outside a-d)
QuestionArgs ==
    {<<"q1", <<"w", "x", "y", "z">>, "a", "">>,
     <<"q2", <<"z", "y", "x", "w">>, "d", "e1">>,
     <<"q1", <<"w", "x", "y">>, "a", "">>,
     <<"q1", <<"w", "x", "y", "z">>, "e", "">>}

\* quizzes, questions : rows of the two tables
\* seq_quizzes, seq_questions : sqlite_sequence, the largest id ever given out
\* open_conns : connections opened by an operation and not closed
\* locked     : one of them holds an open write transaction on the file
\* last       : the operation that ran last and what it returned or raised
\* added      : history, per name: the add_question calls that succeeded since
\*              the quiz of that name was created
\* pc, quiz, order, num : the Quiz object of the running process (self.questions,
\*              self.score, self.total), the list run() iterates and its counter
VARIABLES quizzes, questions, seq_quizzes, seq_questions,
          open_conns, locked, last, added,
          pc, quiz, order, num

store == <<quizzes, questions, seq_quizzes, seq_questions>>
conns == <<open_conns, locked>>
session == <<pc, quiz, order, num>>
vars == <<quizzes, questions, seq_quizzes, seq_questions,
          open_conns, locked, last, added, pc, quiz, order, num>>

(* --------------------------- characters -------------------------------- *)
Alphabet == {"a", "b", "c", "d", "e", "q", "u", "i", "t",
             "A", "B", "Q", "U", "I", "T", " "}

ord == [c \in Alphabet |->
          CASE c = "a" -> 97  [] c = "b" -> 98  [] c = "c" -> 99
            [] c = "d" -> 100 [] c = "e" -> 101 [] c = "i" -> 105
            [] c = "q" -> 113 [] c = "t" -> 116 [] c = "u" -> 117
            [] c = "A" -> 65  [] c = "B" -> 66  [] c = "I" -> 73
            [] c = "Q" -> 81  [] c = "T" -> 84  [] c = "U" -> 85
            [] c = " " -> 32]

chr(n) == CHOOSE c \in Alphabet : ord[c] = n

(* ------------------------------ store ---------------------------------- *)
NoQuiz == [name |-> "", title |-> "", questions |-> <<>>, score |-> 0, total |-> 0]

None == [name |-> "None"]

\* sqlite3.connect() leaves foreign-key enforcement at SQLite's default (off);
\* the code never issues PRAGMA foreign_keys = ON.
foreign_keys == FALSE

CorrectCheck(correct) == correct \in {"a", "b", "c", "d"}

\* INTEGER PRIMARY KEY AUTOINCREMENT: one more than the largest id ever used
NextRowId_reuse(seq, rows) ==
    IF rows = {} THEN 1
    ELSE (CHOOSE m \in {r.id : r \in rows} : \A r \in rows : r.id <= m) + 1

NextRowId(seq, rows) == seq + 1

QuizRows(quiz_name) == {qz \in quizzes : qz.name = quiz_name}

\* SELECT id FROM quizzes WHERE name = ?
SelectQuizId_default(quiz_name) ==
    IF QuizRows(quiz_name) = {} THEN {0} ELSE {qz.id : qz \in QuizRows(quiz_name)}

SelectQuizId(quiz_name) == {qz.id : qz \in QuizRows(quiz_name)}

RECURSIVE OrderById_desc(_)
OrderById_desc(rows) ==
    IF rows = {} THEN <<>>
    ELSE LET r == CHOOSE x \in rows : \A y \in rows : x.id >= y.id
         IN  <<r>> \o OrderById_desc(rows \ {r})

RECURSIVE OrderById(_)
OrderById(rows) ==
    IF rows = {} THEN <<>>
    ELSE LET r == CHOOSE x \in rows : \A y \in rows : x.id <= y.id
         IN  <<r>> \o OrderById(rows \ {r})

RowToQuestion(row) ==
    [question |-> row.question,
     choices |-> <<row.choice_a, row.choice_b, row.choice_c, row.choice_d>>,
     correct |-> ord[row.correct_answer] - ord["a"],
     explanation |-> row.explanation]

JoinedRows(quiz_name) ==
    {q \in questions : \E qz \in quizzes : q.quiz_id = qz.id /\ qz.name = quiz_name}

get_quiz_questions(quiz_name) ==
    LET rows == OrderById(JoinedRows(quiz_name))
    IN  [i \in 1..Len(rows) |-> RowToQuestion(rows[i])]

QuizInfo(qz) ==
    [name |-> qz.name, title |-> qz.title, description |-> qz.description,
     question_count |-> Cardinality({q \in questions : q.quiz_id = qz.id})]

get_quiz_info(quiz_name) ==
    IF QuizRows(quiz_name) = {} THEN None
    ELSE QuizInfo(CHOOSE r \in QuizRows(quiz_name) : TRUE)

\* collation of the quiz names used here: "n1" < "n2"
NameRank(name) == IF name = "n1" THEN 1 ELSE 2

RECURSIVE OrderByName(_)
OrderByName(rows) ==
    IF rows = {} THEN <<>>
    ELSE LET r == CHOOSE x \in rows : \A y \in rows : NameRank(x.name) <= NameRank(y.name)
         IN  <<r>> \o OrderByName(rows \ {r})

list_quizzes ==
    LET rows == OrderByName(quizzes)
    IN  [i \in 1..Len(rows) |-> QuizInfo(rows[i])]

(* ----------------------------- session --------------------------------- *)
Quiz(name, title, qs) ==
    [name |-> name, title |-> title, questions |-> qs, score |-> 0, total |-> Len(qs)]

QuestionDicts ==
    [question : {"q1"}, choices : {<<"w", "x", "y", "z">>},
     correct : 0..3, explanation : {""}]

QuestionLists == UNION {[1..n -> QuestionDicts] : n \in 0..MaxQuestions}

Perms(qs) ==
    {[i \in 1..Len(qs) |-> qs[p[i]]] :
        p \in {f \in [1..Len(qs) -> 1..Len(qs)] :
                 \A i, j \in 1..Len(qs) : f[i] = f[j] => i = j}}

IsSpace(c) == c = " "

RECURSIVE lstrip(_)
lstrip(s) == IF s # <<>> /\ IsSpace(Head(s)) THEN lstrip(Tail(s)) ELSE s

RECURSIVE rstrip(_)
rstrip(s) ==
    IF s # <<>> /\ IsSpace(s[Len(s)]) THEN rstrip(SubSeq(s, 1, Len(s) - 1)) ELSE s

strip(s) == rstrip(lstrip(s))

lower(s) ==
    [i \in 1..Len(s) |-> IF ord[s[i]] \in 65..90 THEN chr(ord[s[i]] + 32) ELSE s[i]]

RawInputs ==
    {<<"a">>, <<"B">>, <<" ", "c", " ">>, <<"d">>, <<"e">>, <<>>, <<"a", "b">>,
     <<"q", "u", "i", "t">>, <<" ", "Q", "U", "I", "T">>}

Rating(score, total) ==
    IF score * 100 >= 90 * total THEN "Excellent work!"
    ELSE IF score * 100 >= 80 * total THEN "Great job!"
    ELSE IF score * 100 >= 70 * total THEN "Good effort!"
    ELSE IF score * 100 >= 60 * total THEN "Keep studying!"
    ELSE "Practice makes perfect!"

IsCorrect_offbyone(answer, question) ==
    ord[answer[1]] - ord["a"] + 1 = question.correct

IsCorrect(answer, question) == ord[answer[1]] - ord["a"] = question.correct

_show_results(score, total) ==
    IF total = 0 THEN "ZeroDivisionError" ELSE Rating(score, total)

(* ------------------------------- Init ---------------------------------- *)
Init ==
    /\ quizzes = {}
    /\ questions = {}
    /\ seq_quizzes = 0
    /\ seq_questions = 0
    /\ open_conns = 0
    /\ locked = FALSE
    /\ last = [op |-> "none", result |-> "none"]
    /\ added = [n \in Names |-> <<>>]
    /\ order = <<>>
    /\ num = 0
    /\ \/ pc = "idle" /\ quiz = NoQuiz
       \/ pc = "NotStarted" /\ quiz \in {Quiz("direct", "t1", qs) : qs \in QuestionLists}

(* ------------------------- storage operations -------------------------- *)
create_quiz(name, title, description) ==
    /\ pc = "idle"
    /\ IF locked
       THEN /\ last' = [op |-> "create_quiz", result |-> "OperationalError"]
            /\ UNCHANGED <<store, added>>
       ELSE IF QuizRows(name) # {}
       THEN /\ last' = [op |-> "create_quiz", result |-> "ValueError: already exists"]
            /\ UNCHANGED <<store, added>>
       ELSE /\ seq_quizzes < MaxQuizId
            /\ seq_quizzes' = seq_quizzes + 1
            /\ quizzes' = quizzes \cup {[id |-> NextRowId(seq_quizzes, quizzes), name |-> name,
                                         title |-> title, description |-> description]}
            /\ last' = [op |-> "create_quiz", result |-> "created"]
            /\ added' = [added EXCEPT ![name] = <<>>]
            /\ UNCHANGED <<questions, seq_questions>>
    /\ UNCHANGED <<conns, session>>

add_question(quiz_name, question, choices, correct, explanation) ==
    /\ pc = "idle"
    /\ IF SelectQuizId(quiz_name) = {}
       THEN /\ last' = [op |-> "add_question", result |-> "ValueError: not found"]
            /\ UNCHANGED <<store, added, conns>>
       ELSE IF Len(choices) < 4
       THEN /\ open_conns < MaxOpenConns
            /\ open_conns' = open_conns + 1
            /\ last' = [op |-> "add_question", result |-> "IndexError"]
            /\ UNCHANGED <<store, added, locked>>
       ELSE IF locked
       THEN /\ open_conns < MaxOpenConns
            /\ open_conns' = open_conns + 1
            /\ last' = [op |-> "add_question", result |-> "OperationalError"]
            /\ UNCHANGED <<store, added, locked>>
       ELSE IF ~CorrectCheck(correct)
       THEN /\ open_conns < MaxOpenConns
            /\ open_conns' = open_conns + 1
            /\ locked' = TRUE
            /\ last' = [op |-> "add_question", result |-> "IntegrityError"]
            /\ UNCHANGED <<store, added>>
       ELSE /\ seq_questions < MaxQuestionId
            /\ LET quiz_id == CHOOSE id \in SelectQuizId(quiz_name) : TRUE
               IN  questions' = questions \cup
                      {[id |-> NextRowId(seq_questions, questions), quiz_id |-> quiz_id,
                        question |-> question,
                        choice_a |-> choices[1], choice_b |-> choices[2],
                        choice_c |-> choices[3], choice_d |-> choices[4],
                        correct_answer |-> correct, explanation |-> explanation]}
            /\ seq_questions' = seq_questions + 1
            /\ added' = [added EXCEPT ![quiz_name] =
                           Append(@, [question |-> question, choices |-> choices,
                                      correct |-> correct, explanation |-> explanation])]
            /\ last' = [op |-> "add_question", result |-> "ok"]
            /\ UNCHANGED <<quizzes, seq_quizzes, conns>>
    /\ UNCHANGED session

delete_quiz(quiz_name) ==
    /\ pc = "idle"
    /\ IF locked
       THEN /\ open_conns < MaxOpenConns
            /\ open_conns' = open_conns + 1
            /\ last' = [op |-> "delete_quiz", result |-> "OperationalError"]
            /\ UNCHANGED <<store, added, locked>>
       ELSE /\ quizzes' = quizzes \ QuizRows(quiz_name)
            /\ questions' = IF foreign_keys
                            THEN {q \in questions :
                                    \A qz \in QuizRows(quiz_name) : q.quiz_id # qz.id}
                            ELSE questions
            /\ last' = [op |-> "delete_quiz", result |-> IF QuizRows(quiz_name) # {} THEN "True" ELSE "False"]
            /\ added' = [added EXCEPT ![quiz_name] = <<>>]
            /\ UNCHANGED <<seq_quizzes, seq_questions, conns>>
    /\ UNCHANGED session

info_command(quiz_name) ==
    /\ pc = "idle"
    /\ last' = [op |-> "get_quiz_info",
                result |-> IF get_quiz_info(quiz_name) = None THEN "None" ELSE "found"]
    /\ UNCHANGED <<store, added, conns, session>>

list_quizzes_command ==
    /\ pc = "idle"
    /\ last' = [op |-> "list_quizzes", result |-> "listed"]
    /\ UNCHANGED <<store, added, conns, session>>

\* A connection that was never closed is closed when the runtime finalises
\* the unreachable Connection object; its open transaction is rolled back.
finalize ==
    /\ open_conns > 0
    /\ open_conns' = 0
    /\ locked' = FALSE
    /\ UNCHANGED <<store, added, last, session>>

(* ------------------------------ Quiz.run ------------------------------- *)
Finish_answered(q) ==
    /\ pc' = "Finished"
    /\ quiz' = [q EXCEPT !.total = IF num < Len(order) THEN num - 1 ELSE q.total]
    /\ last' = [op |-> "_show_results", result |-> _show_results(q.score, q.total)]
    /\ UNCHANGED <<order, num>>

Finish(q) ==
    /\ pc' = "Finished"
    /\ quiz' = q
    /\ last' = [op |-> "_show_results", result |-> _show_results(q.score, q.total)]
    /\ UNCHANGED <<order, num>>

Run_unguarded(q, shuffle) ==
    \E qs \in (IF shuffle THEN Perms(q.questions) ELSE {q.questions}) :
        /\ order' = qs
        /\ IF Len(qs) = 0
           THEN /\ pc' = "Finished"
                /\ quiz' = q
                /\ num' = 0
                /\ last' = [op |-> "_show_results",
                            result |-> _show_results(q.score, q.total)]
           ELSE /\ pc' = "Running"
                /\ quiz' = q
                /\ num' = 1
                /\ last' = [op |-> "run", result |-> "started"]

Run(q, shuffle) ==
    IF q.questions = <<>>
    THEN /\ pc' = "Returned"
         /\ quiz' = q
         /\ last' = [op |-> "run", result |-> "no questions"]
         /\ UNCHANGED <<order, num>>
    ELSE \E qs \in (IF shuffle THEN Perms(q.questions) ELSE {q.questions}) :
            /\ order' = qs
            /\ IF Len(qs) = 0
               THEN /\ pc' = "Finished"
                    /\ quiz' = q
                    /\ num' = 0
                    /\ last' = [op |-> "_show_results",
                                result |-> _show_results(q.score, q.total)]
               ELSE /\ pc' = "Running"
                    /\ quiz' = q
                    /\ num' = 1
                    /\ last' = [op |-> "run", result |-> "started"]

run(shuffle) ==
    /\ pc = "NotStarted"
    /\ Run(quiz, shuffle)
    /\ UNCHANGED <<store, added, conns>>

run_quiz_command(quiz_name, shuffle) ==
    /\ pc = "idle"
    /\ LET quiz_info == get_quiz_info(quiz_name)
       IN  IF quiz_info = None
           THEN /\ last' = [op |-> "run_quiz_command", result |-> "not found"]
                /\ UNCHANGED session
           ELSE IF quiz_info.question_count = 0
           THEN /\ last' = [op |-> "run_quiz_command", result |-> "no questions"]
                /\ UNCHANGED session
           ELSE Run(Quiz(quiz_name, quiz_info.title, get_quiz_questions(quiz_name)),
                    shuffle)
    /\ UNCHANGED <<store, added, conns>>

_ask_question(raw) ==
    /\ pc = "Running"
    /\ LET answer == lower(strip(raw))
           question == order[num]
       IN  IF answer = <<"q", "u", "i", "t">>
           THEN Finish(quiz)
           ELSE IF Len(answer) = 1 /\ answer[1] \in {"a", "b", "c", "d"}
           THEN LET q == IF IsCorrect(answer, question)
                         THEN [quiz EXCEPT !.score = @ + 1]
                         ELSE quiz
                IN  IF num < Len(order)
                    THEN /\ quiz' = q
                         /\ num' = num + 1
                         /\ UNCHANGED <<pc, order, last>>
                    ELSE Finish(q)
           ELSE UNCHANGED <<session, last>>
    /\ UNCHANGED <<store, added, conns>>

\* the process ends: the Quiz object is gone, the database file stays
exit ==
    /\ pc \in {"Finished", "Returned"}
    /\ pc' = "idle"
    /\ quiz' = NoQuiz
    /\ order' = <<>>
    /\ num' = 0
    /\ UNCHANGED <<store, added, conns, last>>

Next ==
    \/ \E a \in QuizArgs : create_quiz(a[1], a[2], a[3])
    \/ \E n \in Names, a \in QuestionArgs : add_question(n, a[1], a[2], a[3], a[4])
    \/ \E n \in Names : delete_quiz(n)
    \/ \E n \in Names : info_command(n)
    \/ list_quizzes_command
    \/ finalize
    \/ \E s \in BOOLEAN : run(s)
    \/ \E n \in Names, s \in BOOLEAN : run_quiz_command(n, s)
    \/ \E raw \in RawInputs : _ask_question(raw)
    \/ exit

Spec == Init /\ [][Next]_vars

(* ------------------------------ properties ----------------------------- *)
QuitToken == <<"q", "u", "i", "t">>

Normalised(raw) == lower(strip(raw))

Accepted(raw) == Len(Normalised(raw)) = 1 /\ Normalised(raw)[1] \in {"a", "b", "c", "d"}

\* C1: no question row refers to a quiz row that is absent: deleting a quiz
\* removes its questions with it, in every reachable state of the store.
C1_NoOrphans ==
    \A q \in questions : \E qz \in quizzes : q.quiz_id = qz.id

\* C2: create_quiz on a name that already exists fails with the duplicate-name
\* error and leaves the store unchanged; no two quiz rows share a name.
C2_DuplicateRejected ==
    [][\A a \in QuizArgs :
          (create_quiz(a[1], a[2], a[3]) /\ QuizRows(a[1]) # {}) =>
              /\ last'.result = "ValueError: already exists"
              /\ UNCHANGED store
              /\ \A x, y \in quizzes' : x.name = y.name => x = y]_vars

\* C3: add_question on a name that resolves to no quiz fails with the
\* quiz-not-found error and leaves the questions table unchanged.
C3_AddToMissingQuiz ==
    [][\A n \in Names, a \in QuestionArgs :
          (add_question(n, a[1], a[2], a[3], a[4]) /\ QuizRows(n) = {}) =>
              /\ last'.result = "ValueError: not found"
              /\ questions' = questions]_vars

C3_Witness ==
    /\ last = [op |-> "add_question", result |-> "ValueError: not found"]
    /\ quizzes = {}
    /\ questions # {}

\* C4: for every existing quiz, get_quiz_questions returns exactly the
\* questions added to it since its creation, in the order added, each with the
\* text, the four choices and the correct label given to add_question (the
\* label is returned as its index and read back with chr(ord('a') + index)).
C4_RoundTrip ==
    \A n \in Names :
        QuizRows(n) # {} =>
            /\ Len(get_quiz_questions(n)) = Len(added[n])
            /\ \A i \in 1..Len(added[n]) :
                  /\ get_quiz_questions(n)[i].question = added[n][i].question
                  /\ get_quiz_questions(n)[i].choices = added[n][i].choices
                  /\ chr(ord["a"] + get_quiz_questions(n)[i].correct) = added[n][i].correct

C4_Witness ==
    \E n \in Names :
        /\ Len(added[n]) = 2
        /\ added[n][1].correct # added[n][2].correct
        /\ added[n][1].choices # added[n][2].choices
        /\ Cardinality(quizzes) = 1
        /\ seq_quizzes = 2

\* C5: delete_quiz on a quiz with at least one question returns true, and
\* afterwards get_quiz_questions is empty and get_quiz_info is absent;
\* delete_quiz on a name that does not exist returns false and changes nothing.
C5_DeleteCompletes ==
    [][\A n \in Names :
          delete_quiz(n) =>
              /\ JoinedRows(n) # {} =>
                    /\ last'.result = "True"
                    /\ get_quiz_questions(n)' = <<>>
                    /\ get_quiz_info(n)' = None
              /\ QuizRows(n) = {} =>
                    /\ last'.result = "False"
                    /\ UNCHANGED store]_vars

\* C6: "quit" at any question ends the session at once: no further question
\* is shown, score is as it was, total is still the original number of
\* questions, and the result is reported as score out of that total.
C6_QuitKeepsTotal ==
    [][\A raw \in RawInputs :
          (_ask_question(raw) /\ Normalised(raw) = QuitToken) =>
              /\ pc' = "Finished"
              /\ num' = num
              /\ quiz'.score = quiz.score
              /\ quiz'.total = quiz.total
              /\ quiz'.total = Len(quiz.questions)
              /\ last' = [op |-> "_show_results",
                          result |-> Rating(quiz.score, Len(quiz.questions))]]_vars

C6_Witness ==
    /\ pc = "Finished"
    /\ quiz.total = 3
    /\ num = 2
    /\ quiz.score = 1

\* C7: during a session score changes only when a letter a-d is accepted: it
\* grows by exactly 1 iff the letter is the question's correct label, and the
\* session moves to the next question (or finishes after the last one); any
\* input other than a letter a-d or "quit" leaves index and score unchanged.
C7_ScoredOncePerQuestion ==
    [][pc = "Running" =>
          /\ quiz'.score # quiz.score =>
                \E raw \in RawInputs : Accepted(raw) /\ _ask_question(raw)
          /\ \A raw \in RawInputs :
                _ask_question(raw) =>
                    IF Accepted(raw)
                    THEN /\ quiz'.score = quiz.score +
                               (IF chr(ord["a"] + order[num].correct) = Normalised(raw)[1]
                                THEN 1 ELSE 0)
                         /\ \/ pc' = "Running" /\ num' = num + 1
                            \/ pc' = "Finished" /\ num = Len(order)
                    ELSE IF Normalised(raw) = QuitToken
                    THEN quiz'.score = quiz.score
                    ELSE /\ num' = num
                         /\ quiz'.score = quiz.score
                         /\ pc' = "Running"]_vars

C7_Witness ==
    /\ pc = "Finished"
    /\ Len(quiz.questions) = 3
    /\ quiz.questions[1].correct = 0
    /\ quiz.questions[2].correct = 1
    /\ quiz.questions[3].correct = 2
    /\ order = quiz.questions
    /\ num = 3
    /\ quiz.score = 2
    /\ quiz.total = 3

\* C8: every storage operation releases the connection it opened before it
\* returns, on every exit path: between operations no connection is open and
\* no transaction is pending.
C8_ConnectionsReleased ==
    open_conns = 0 /\ ~locked

\* C9: results are never computed with total = 0: run() on a quiz without
\* questions reports "no questions" and returns, the run command constructs no
\* session for a missing or empty quiz, and whenever a session is running or
\* its results are shown, total >= 1 and 0 <= score <= total.
C9_NoResultsWithoutQuestions ==
    /\ last.result # "ZeroDivisionError"
    /\ pc \in {"Running", "Finished"} =>
          /\ quiz.total >= 1
          /\ quiz.total = Len(quiz.questions)
          /\ 0 <= quiz.score
          /\ quiz.score <= quiz.total
    /\ pc = "Returned" =>
          /\ quiz.questions = <<>>
          /\ last = [op |-> "run", result |-> "no questions"]
    /\ quiz.name \in Names => quiz.total >= 1 /\ get_quiz_info(quiz.name) # None
    /\ last.op = "run_quiz_command" => pc = "idle" /\ quiz = NoQuiz

C9_Witness ==
    /\ pc = "Returned"
    /\ quiz.total = 0
    /\ last = [op |-> "run", result |-> "no questions"]

\* C10: a quiz created under a name that was deleted before starts empty:
\* every successful create_quiz yields a quiz with no questions and question
\* count 0, its id is larger than every id used before, and no existing
\* question row refers to it.
C10_RecreatedStartsEmpty ==
    [][\A a \in QuizArgs :
          (create_quiz(a[1], a[2], a[3]) /\ last'.result = "created") =>
              /\ get_quiz_questions(a[1])' = <<>>
              /\ get_quiz_info(a[1])'.question_count = 0
              /\ \A qz \in quizzes' \ quizzes :
                    /\ qz.id > seq_quizzes
                    /\ \A q \in questions' : q.quiz_id # qz.id]_vars

C10_Witness ==
    /\ last = [op |-> "create_quiz", result |-> "created"]
    /\ \E qz \in quizzes, q \in questions :
          /\ q.quiz_id < qz.id
          /\ \A other \in quizzes : other.id # q.quiz_id
          /\ get_quiz_questions(qz.name) = <<>>
====
